---- MODULE Spec2Model ----
(***************************************************************************)
(* The chat session of the SolarForecast component                         *)
(* (solar-forecast-ai/frontend/src/components/SolarForecast.js): the four  *)
(* useState cells, the requests that axios has outstanding, and one action *)
(* per event handler or promise continuation.                              *)
(*                                                                         *)
(* JavaScript values are encoded as records tagged by t, so that values of *)
(* different JavaScript types can be compared.  A message text is a        *)
(* sequence of characters, because String.prototype.trim is applied to it; *)
(* the strings of an error body are opaque TLA+ strings.                   *)
(***************************************************************************)
EXTENDS Integers, Sequences, FiniteSets, TLC

VARIABLES
    message,        \* useState(""): the text of the input field
    conversations,  \* useState([]): the turns of the session
    loading,        \* useState(false): the in-flight flag
    error,          \* useState(null): the value shown in the Alert
    pending,        \* the axios.post calls that have not settled yet
    lastEvent       \* history: the handler or continuation that ran last

vars == <<message, conversations, loading, error, pending, lastEvent>>

----------------------------------------------------------------------------
(* Input sets *)

Chars == {" ", "q"}

\* The texts the user can put into the input field.
Texts == {<<>>, <<" ">>, <<"q">>}

\* JavaScript's undefined, as the value of a missing field.
Undefined == "<undefined>"

----------------------------------------------------------------------------
(* JavaScript values *)

JsNull == [t |-> "null"]
JsString(s) == [t |-> "string", s |-> s]
\* A document: its discriminants, whether it has a location with coordinates,
\* the payload fields it has, and its recommendations field.
JsObject(qt, tf, loc, payloads, recs) ==
    [t |-> "object", query_type |-> qt, time_frame |-> tf, location |-> loc,
     payloads |-> payloads, recommendations |-> recs]
JsElement(strong, text) == [t |-> "element", strong |-> strong, text |-> text]

\* Truthiness of an optional string field.
Truthy(v) == v # Undefined /\ v # ""

IsSpace(c) == c = " "

RECURSIVE TrimStart(_)
TrimStart(s) ==
    IF s # <<>> /\ IsSpace(Head(s)) THEN TrimStart(Tail(s)) ELSE s

RECURSIVE TrimEnd(_)
TrimEnd(s) ==
    IF s # <<>> /\ IsSpace(s[Len(s)]) THEN TrimEnd(SubSeq(s, 1, Len(s) - 1)) ELSE s

\* String.prototype.trim
trim(s) == TrimEnd(TrimStart(s))

----------------------------------------------------------------------------
(* Program constants *)

\* conversations.length >= 10
TurnLimit == 10

\* 5 - Math.floor(conversations.length/2)
QuestionBudget == 5

LimitMessage ==
    "Maximum conversation limit reached. Please refresh to start a new conversation."

FallbackMessage == "Failed to get data. Please try again."

----------------------------------------------------------------------------
(* The Query Service's answers *)

\* res.data of a 2xx answer: a document with a discriminant, and raw text.
Docs ==
    {JsObject("forecast", "daily", TRUE, {"daily_forecast"}, Undefined),
     JsString(<<"q">>)}

\* The values of content.query_type, content.time_frame and
\* content.recommendations, and the payload fields a document can have.
QueryTypes == {Undefined, "", "forecast", "marine", "air_quality", "alerts"}
TimeFrames == {Undefined, "hourly", "daily"}
RecommendationLists == {Undefined, "[]", "[{category, advice}]"}
PayloadFields ==
    {"hourly_forecast", "daily_forecast", "wave_conditions", "air_quality_metrics"}

\* res.data of a 2xx answer, in all its shapes: documents (with one payload
\* field at most), raw text, the empty body and the JSON value null.
RenderDocs ==
    {JsObject(qt, tf, loc, payloads, recs) :
        qt \in QueryTypes, tf \in TimeFrames, loc \in BOOLEAN,
        payloads \in {{}} \cup {{f} : f \in PayloadFields},
        recs \in RecommendationLists}
    \cup {JsString(<<>>), JsString(<<"q">>), JsNull}

\* The rejection of axios.post.  response: err.response is set; data:
\* err.response.data is set; code: what made axios reject.
Failure(code, response, data, e, d) ==
    [code |-> code, response |-> response, data |-> data, error |-> e, details |-> d]

TimeoutFailure == Failure("ECONNABORTED", FALSE, FALSE, Undefined, Undefined)

\* The values of the error and details fields of a failure body.
ErrorStrings == {Undefined, "", "RateLimited"}
DetailStrings == {Undefined, "", "Try again in 60s"}

Failures ==
    {Failure("ERR_NETWORK", FALSE, FALSE, Undefined, Undefined),
     Failure("ERR_BAD_RESPONSE", TRUE, FALSE, Undefined, Undefined)}
    \cup {Failure("ERR_BAD_RESPONSE", TRUE, TRUE, e, d) :
            e \in ErrorStrings, d \in DetailStrings}

\* err.response?.data?.details
OptDetails(err) == IF err.response /\ err.data THEN err.details ELSE Undefined

\* err.response?.data?.error
OptError(err) == IF err.response /\ err.data THEN err.error ELSE Undefined

\* const errorMessage = ... in the catch block
errorMessage(err) ==
    IF Truthy(OptDetails(err))
    THEN JsElement(err.error, err.details)
    ELSE IF Truthy(OptError(err))
         THEN JsString(err.error)
         ELSE JsString(FallbackMessage)

----------------------------------------------------------------------------
(* Turns and derived values *)

userMessage(text) == [type |-> "user", content |-> JsString(text)]

assistantMessage(data) == [type |-> "assistant", content |-> data]

RemoveAt(s, i) == SubSeq(s, 1, i - 1) \o SubSeq(s, i + 1, Len(s))

UserTurns(turns) == Cardinality({i \in 1..Len(turns) : turns[i].type = "user"})

AssistantTurns(turns) ==
    Cardinality({i \in 1..Len(turns) : turns[i].type = "assistant"})

\* conversations.length >= 10
LimitReached(turns) == Len(turns) >= TurnLimit

\* A display that counts turns, not pairs of turns.
remainingQuestions_PerTurn(turns) == QuestionBudget - Len(turns)

\* A display that rounds the number of pairs up.
remainingQuestions_RoundUp(turns) == QuestionBudget - ((Len(turns) + 1) \div 2)

\* {5 - Math.floor(conversations.length/2)} questions remaining
remainingQuestions(turns) == QuestionBudget - (Len(turns) \div 2)

\* Form.Control disabled={loading || conversations.length >= 10}
InputDisabled == loading \/ LimitReached(conversations)

\* A Send button that tests message, not message.trim().
SendDisabled_NoTrim == loading \/ message = <<>> \/ LimitReached(conversations)

\* Button disabled={loading || !message.trim() || conversations.length >= 10}
SendDisabled == loading \/ trim(message) = <<>> \/ LimitReached(conversations)

\* {conversations.length >= 10 && (... Start New Conversation ...)}
ResetShown == LimitReached(conversations)

----------------------------------------------------------------------------
(* Rendering *)

\* content.query_type: a string has no such property.
QueryType(content) == IF content.t = "object" THEN content.query_type ELSE Undefined

\* content.time_frame
TimeFrame(content) == IF content.t = "object" THEN content.time_frame ELSE Undefined

\* {condition && renderBlock(content)}
Block(condition, name) == IF condition THEN <<name>> ELSE <<>>

\* The block conditions with the hourly one testing query_type alone.
SelectedBlocks_HourlyAnyTimeFrame(content) ==
    Block(QueryType(content) = "forecast", "hourly")
    \o Block(QueryType(content) = "forecast" /\ TimeFrame(content) = "daily", "daily")
    \o Block(QueryType(content) = "marine", "marine")
    \o Block(QueryType(content) = "air_quality", "air_quality")

\* The type-specific blocks renderWeatherData selects, in the order of its lines.
SelectedBlocks(content) ==
    Block(QueryType(content) = "forecast" /\ TimeFrame(content) = "hourly", "hourly")
    \o Block(QueryType(content) = "forecast" /\ TimeFrame(content) = "daily", "daily")
    \o Block(QueryType(content) = "marine", "marine")
    \o Block(QueryType(content) = "air_quality", "air_quality")

\* The payload field a block reads.
PayloadOf(block) ==
    CASE block = "hourly" -> "hourly_forecast"
      [] block = "daily" -> "daily_forecast"
      [] block = "marine" -> "wave_conditions"
      [] block = "air_quality" -> "air_quality_metrics"

\* JSON.stringify(content): the serialized text of the value.
JSONstringify(content) == [t |-> "json", of |-> content]

\* An exception thrown while rendering.
TypeError == [t |-> "TypeError"]

\* renderRecommendations renders a block: content.recommendations?.length
HasRecommendations(content) == content.recommendations \notin {Undefined, "[]"}

\* renderWeatherData(content).  Reading a property of null, of a missing
\* location or of a missing payload field throws.
renderWeatherData(content) ==
    IF content.t = "null" THEN TypeError
    ELSE IF ~Truthy(QueryType(content)) THEN JSONstringify(content)
    ELSE IF ~content.location THEN TypeError
    ELSE IF \E k \in 1..Len(SelectedBlocks(content)) :
                PayloadOf(SelectedBlocks(content)[k]) \notin content.payloads
         THEN TypeError
         ELSE [t |-> "analysis",
               blocks |-> SelectedBlocks(content),
               recommendations |-> HasRecommendations(content)]

\* The message-content of renderMessage(msg, index)
renderMessage(msg) ==
    IF msg.type = "user" THEN msg.content ELSE renderWeatherData(msg.content)

\* {conversations.map(...)} throws: React unmounts the component, which has no
\* error boundary, and no handler of it runs any more.
Unmounted ==
    \E i \in 1..Len(conversations) : renderMessage(conversations[i]) = TypeError

----------------------------------------------------------------------------
(* Initial state: the useState initialisers *)

Init ==
    /\ message = <<>>
    /\ conversations = <<>>
    /\ loading = FALSE
    /\ error = JsNull
    /\ pending = <<>>
    /\ lastEvent = "mount"

----------------------------------------------------------------------------
(* Handlers *)

\* onChange={(e) => setMessage(e.target.value)} of the enabled input field
onChange ==
    /\ ~InputDisabled
    /\ \E value \in Texts : message' = value
    /\ lastEvent' = "change"
    /\ UNCHANGED <<conversations, loading, error, pending>>

\* handleSubmit without setLoading(true).
handleSubmit_NoLoading ==
    IF LimitReached(conversations)
    THEN /\ error' = JsString(LimitMessage)
         /\ lastEvent' = "rejected"
         /\ UNCHANGED <<message, conversations, loading, pending>>
    ELSE /\ error' = JsNull
         /\ conversations' = Append(conversations, userMessage(message))
         /\ message' = <<>>
         /\ pending' = Append(pending,
                [message |-> message,
                 turns |-> Append(conversations, userMessage(message))])
         /\ lastEvent' = "submit"
         /\ UNCHANGED loading

\* handleSubmit with conversations.length === 10 as its limit check.
handleSubmit_EqualLimit ==
    IF Len(conversations) = TurnLimit
    THEN /\ error' = JsString(LimitMessage)
         /\ lastEvent' = "rejected"
         /\ UNCHANGED <<message, conversations, loading, pending>>
    ELSE /\ loading' = TRUE
         /\ error' = JsNull
         /\ conversations' = Append(conversations, userMessage(message))
         /\ message' = <<>>
         /\ pending' = Append(pending,
                [message |-> message,
                 turns |-> Append(conversations, userMessage(message))])
         /\ lastEvent' = "submit"

\* handleSubmit that appends the user turn only when the answer arrives: the
\* request goes out before its user turn is in the session.
handleSubmit_LateUserTurn ==
    IF LimitReached(conversations)
    THEN /\ error' = JsString(LimitMessage)
         /\ lastEvent' = "rejected"
         /\ UNCHANGED <<message, conversations, loading, pending>>
    ELSE /\ loading' = TRUE
         /\ error' = JsNull
         /\ message' = <<>>
         /\ pending' = Append(pending,
                [message |-> message,
                 turns |-> Append(conversations, userMessage(message))])
         /\ lastEvent' = "submit"
         /\ UNCHANGED conversations

\* handleSubmit without setError(null).
handleSubmit_KeepError ==
    IF LimitReached(conversations)
    THEN /\ error' = JsString(LimitMessage)
         /\ lastEvent' = "rejected"
         /\ UNCHANGED <<message, conversations, loading, pending>>
    ELSE /\ loading' = TRUE
         /\ conversations' = Append(conversations, userMessage(message))
         /\ message' = <<>>
         /\ pending' = Append(pending,
                [message |-> message,
                 turns |-> Append(conversations, userMessage(message))])
         /\ lastEvent' = "submit"
         /\ UNCHANGED error

\* handleSubmit that posts the input text as it is after setMessage("").
handleSubmit_SendsCleared ==
    IF LimitReached(conversations)
    THEN /\ error' = JsString(LimitMessage)
         /\ lastEvent' = "rejected"
         /\ UNCHANGED <<message, conversations, loading, pending>>
    ELSE /\ loading' = TRUE
         /\ error' = JsNull
         /\ conversations' = Append(conversations, userMessage(message))
         /\ message' = <<>>
         /\ pending' = Append(pending,
                [message |-> <<>>,
                 turns |-> Append(conversations, userMessage(message))])
         /\ lastEvent' = "submit"

\* handleSubmit without the return after the limit message.
handleSubmit_NoReturn ==
    /\ loading' = TRUE
    /\ error' = JsNull
    /\ conversations' = Append(conversations, userMessage(message))
    /\ message' = <<>>
    /\ pending' = Append(pending,
           [message |-> message,
            turns |-> Append(conversations, userMessage(message))])
    /\ lastEvent' = IF LimitReached(conversations) THEN "rejected" ELSE "submit"

\* handleSubmit up to its await.  A request records, besides the message it
\* carries, the turn sequence as it was right after its user turn was appended
\* (a history field).
handleSubmit ==
    IF LimitReached(conversations)
    THEN /\ error' = JsString(LimitMessage)
         /\ lastEvent' = "rejected"
         /\ UNCHANGED <<message, conversations, loading, pending>>
    ELSE /\ loading' = TRUE
         /\ error' = JsNull
         /\ conversations' = Append(conversations, userMessage(message))
         /\ message' = <<>>
         /\ pending' = Append(pending,
                [message |-> message,
                 turns |-> Append(conversations, userMessage(message))])
         /\ lastEvent' = "submit"

\* A click on the enabled Send button (or Enter in the input field, which
\* clicks the form's default button) submits the form.
ClickSend ==
    /\ ~SendDisabled
    /\ handleSubmit

\* A submit event that reaches onSubmit although the limit has disabled the
\* controls (form.requestSubmit(), a scripted event): the case the check at
\* the head of handleSubmit is there for.
DispatchSubmit ==
    /\ LimitReached(conversations)
    /\ handleSubmit

\* A continuation that appends to the conversations of its own render, which
\* lack the user turn: setConversations([...conversations, assistantMessage]).
ResponseSuccess_StaleClosure ==
    \E i \in 1..Len(pending), data \in Docs :
        /\ conversations' =
              Append(SubSeq(pending[i].turns, 1, Len(pending[i].turns) - 1),
                     assistantMessage(data))
        /\ loading' = FALSE
        /\ pending' = RemoveAt(pending, i)
        /\ lastEvent' = "success"
        /\ UNCHANGED <<message, error>>

\* The continuation after `await axios.post` resolved, and the finally block.
ResponseSuccess ==
    \E i \in 1..Len(pending), data \in Docs :
        /\ conversations' = Append(conversations, assistantMessage(data))
        /\ loading' = FALSE
        /\ pending' = RemoveAt(pending, i)
        /\ lastEvent' = "success"
        /\ UNCHANGED <<message, error>>

\* The catch block without the finally block.
Catch_KeepLoading(i, err) ==
    /\ error' = errorMessage(err)
    /\ pending' = RemoveAt(pending, i)
    /\ UNCHANGED <<message, conversations, loading>>

\* The catch block and the finally block, for the rejection err of request i.
Catch(i, err) ==
    /\ error' = errorMessage(err)
    /\ loading' = FALSE
    /\ pending' = RemoveAt(pending, i)
    /\ UNCHANGED <<message, conversations>>

\* axios.post rejected: no connection, or an answer with a non-2xx status.
ResponseFailure ==
    \E i \in 1..Len(pending), err \in Failures :
        /\ Catch(i, err)
        /\ lastEvent' = "failure"

\* axios.post rejected because 30000 ms passed.
Timeout ==
    \E i \in 1..Len(pending) :
        /\ Catch(i, TimeoutFailure)
        /\ lastEvent' = "timeout"

\* A reset that drops the oldest turn instead of all turns.
StartNewConversation_DropOldest ==
    /\ ResetShown
    /\ conversations' = Tail(conversations)
    /\ error' = JsNull
    /\ lastEvent' = "reset"
    /\ UNCHANGED <<message, loading, pending>>

\* onClick of Start New Conversation
StartNewConversation ==
    /\ ResetShown
    /\ conversations' = <<>>
    /\ error' = JsNull
    /\ lastEvent' = "reset"
    /\ UNCHANGED <<message, loading, pending>>

----------------------------------------------------------------------------
(* Specifications *)

\* The component as a user drives it through its controls.
Next ==
    \/ onChange
    \/ ClickSend
    \/ ResponseSuccess
    \/ ResponseFailure
    \/ Timeout
    \/ StartNewConversation

Spec == Init /\ [][Next]_vars

\* The component with, besides, submit events that arrive at the limit.
NextForm ==
    \/ onChange
    \/ ClickSend
    \/ DispatchSubmit
    \/ ResponseSuccess
    \/ ResponseFailure
    \/ Timeout
    \/ StartNewConversation

SpecForm == Init /\ [][NextForm]_vars

\* Every request settles: axios rejects it after 30000 ms at the latest.
FairSpec == Spec /\ WF_vars(ResponseSuccess \/ ResponseFailure \/ Timeout)

\* Questions asked in a session of SpecRender.
MaxExchanges == 1

\* The user types into the input field of the mounted component.
TypeText ==
    /\ ~Unmounted
    /\ onChange

\* The user sends a question through the mounted component.
AskQuestion ==
    /\ ~Unmounted
    /\ UserTurns(conversations) < MaxExchanges
    /\ ClickSend

\* The continuation after `await axios.post` resolved, for an answer of any
\* shape, and the finally block.
ResponseDocument ==
    \E i \in 1..Len(pending), data \in RenderDocs :
        /\ conversations' = Append(conversations, assistantMessage(data))
        /\ loading' = FALSE
        /\ pending' = RemoveAt(pending, i)
        /\ lastEvent' = "success"
        /\ UNCHANGED <<message, error>>

\* The component with answers of every shape, for a bounded number of questions.
NextRender ==
    \/ TypeText
    \/ AskQuestion
    \/ ResponseDocument

SpecRender == Init /\ [][NextRender]_vars

----------------------------------------------------------------------------
(* Claims *)

\* C1: in a session, once 5 user submissions have been accepted (5 user turns
\* since the last reset), no further submission is accepted, whatever the
\* number of assistant turns.
C1_SixthSubmissionRejected ==
    [][UserTurns(conversations) >= 5
        => UserTurns(conversations') <= UserTurns(conversations)]_vars

\* C2: in every reachable state the session holds at most 5 user turns and at
\* most 10 turns.
C2_TurnBounds ==
    /\ UserTurns(conversations) <= 5
    /\ Len(conversations) <= 10

\* C3: at most one request is outstanding at any time, and no request is
\* issued in a state where loading is true.
C3_SingleOutstandingRequest ==
    /\ [](Len(pending) <= 1)
    /\ [][loading => Len(pending') <= Len(pending)]_vars

C3_Witness ==
    /\ lastEvent = "submit"
    /\ loading
    /\ Len(pending) = 1
    /\ Len(conversations) > 2

\* C4: every accepted submit is eventually followed by a state where loading
\* is false, and loading is false whenever no request is outstanding.
C4_LoadingCleared ==
    /\ (lastEvent = "submit") ~> ~loading
    /\ [](pending = <<>> => ~loading)

C4_Witness ==
    /\ lastEvent = "timeout"
    /\ pending = <<>>
    /\ ~loading

\* C5: when a request fails, the error value is set and the turn sequence
\* after the failure is the turn sequence right after the request's user turn
\* was appended.
C5_FailureKeepsTurns ==
    [][(lastEvent' \in {"failure", "timeout"} /\ Len(pending) = 1 /\ pending' = <<>>)
        => (error' # JsNull /\ conversations' = pending[1].turns)]_vars

\* C6: a submission rejected for the limit issues no request, leaves the turn
\* sequence, the in-flight flag and the input text as they are, and sets the
\* error value to the fixed advisory message.
C6_RejectionFrame ==
    [][lastEvent' = "rejected"
        => (/\ error' = JsString(LimitMessage)
            /\ UNCHANGED <<conversations, loading, pending, message>>)]_vars

C6_Witness ==
    /\ lastEvent = "rejected"
    /\ LimitReached(conversations)
    /\ error = JsString(LimitMessage)

\* C7: right after a reset the turn sequence is empty, the error value is
\* null, the limit check of handleSubmit lets a submission pass, and unless a
\* request is still in flight the input field is enabled.
C7_ResetRestoresSubmission ==
    lastEvent = "reset"
        => (/\ conversations = <<>>
            /\ error = JsNull
            /\ ~LimitReached(conversations)
            /\ (~loading => ~InputDisabled))

C7_Witness ==
    /\ lastEvent = "reset"
    /\ ~loading
    /\ conversations = <<>>

\* The message the claim C8 expects for the rejection err.
C8_Claimed(err) ==
    IF Truthy(OptError(err)) /\ Truthy(OptDetails(err))
    THEN JsElement(err.error, err.details)
    ELSE IF Truthy(OptError(err))
         THEN JsString(err.error)
         ELSE JsString(FallbackMessage)

\* C8: after a failed request the error value is title and details when the
\* body has both error and details, the error string when it has only error,
\* and the generic fallback in every other case.
C8_ErrorMapping ==
    [][\A err \in Failures \cup {TimeoutFailure} :
        (Len(pending) = 1 /\ Catch(1, err)) => error' = C8_Claimed(err)]_vars

\* C9 as claimed: with no request in flight the displayed value equals 5 minus
\* the number of user turns.
C9_DisplayMatchesUserTurns ==
    pending = <<>>
        => remainingQuestions(conversations) = 5 - UserTurns(conversations)

\* C9 as amended: the displayed value is never below 5 minus the number of
\* user turns, and with no request in flight and as many assistant turns as
\* user turns it equals it.
C9_DisplayNeverBelowUserBudget ==
    /\ remainingQuestions(conversations) >= 5 - UserTurns(conversations)
    /\ (pending = <<>> /\ UserTurns(conversations) = AssistantTurns(conversations))
        => remainingQuestions(conversations) = 5 - UserTurns(conversations)

C9_Witness ==
    /\ pending = <<>>
    /\ Len(conversations) = 4
    /\ UserTurns(conversations) = AssistantTurns(conversations)
    /\ remainingQuestions(conversations) = 3

\* C10: once the limit blocks submission it blocks it in every later state
\* until a reset: no other step ends the limit or accepts a submission.
C10_LimitedUntilReset ==
    [][(LimitReached(conversations) /\ lastEvent' # "reset")
        => (LimitReached(conversations') /\ lastEvent' # "submit")]_vars

C10_Witness ==
    /\ lastEvent \in {"failure", "timeout", "success"}
    /\ LimitReached(conversations)
    /\ pending = <<>>

\* C11: the reset cannot occur while a request is in flight: in no reachable
\* state is loading true and Start New Conversation offered.
C11_NoResetInFlight == ~(loading /\ ResetShown)

\* The last turn of a turn sequence is the user turn with this text.
EndsWithUserTurn(turns, text) ==
    /\ turns # <<>>
    /\ turns[Len(turns)] = userMessage(text)

\* C12: a request is outstanding only after its user turn was appended (the
\* step that issues it leaves the session ending with that user turn), and the
\* answer of a request is appended behind every turn the session holds, so
\* behind that user turn as long as it is there.
C12_UserTurnBeforeRequest ==
    /\ [](\A i \in 1..Len(pending) :
            EndsWithUserTurn(pending[i].turns, pending[i].message))
    /\ [][(lastEvent' = "submit"
            => (/\ pending' # <<>>
                /\ conversations' = pending'[Len(pending')].turns
                /\ Len(conversations') = Len(conversations) + 1))
          /\
          (lastEvent' = "success"
            => (/\ pending # <<>>
                /\ Len(conversations') = Len(conversations) + 1
                /\ SubSeq(conversations', 1, Len(conversations)) = conversations
                /\ conversations'[Len(conversations')].type = "assistant"))]_vars

C12_Witness ==
    /\ lastEvent = "success"
    /\ Len(conversations) = 4
    /\ conversations[3].type = "user"
    /\ conversations[4].type = "assistant"

\* C13: no user turn of the session has a content that is empty after
\* trimming, and no outstanding request carries such a message.
C13_NoBlankSubmission ==
    /\ \A i \in 1..Len(conversations) :
        conversations[i].type = "user" => trim(conversations[i].content.s) # <<>>
    /\ \A i \in 1..Len(pending) : trim(pending[i].message) # <<>>

C13_Witness ==
    /\ message = <<" ">>
    /\ ~loading
    /\ ~LimitReached(conversations)
    /\ SendDisabled
    /\ UserTurns(conversations) >= 1

\* The block the rule of C14 names for a document, as a sequence of blocks.
C14_Rule(content) ==
    CASE QueryType(content) = "forecast" /\ TimeFrame(content) = "hourly" -> <<"hourly">>
      [] QueryType(content) = "forecast" /\ TimeFrame(content) = "daily" -> <<"daily">>
      [] QueryType(content) = "marine" -> <<"marine">>
      [] QueryType(content) = "air_quality" -> <<"air_quality">>
      [] OTHER -> <<>>

\* C14: for every answer with a query_type, the blocks selected are the one
\* block the rule names (none for any other combination), never two, and a
\* rendering that completes shows exactly them.
C14_OneBlockSelected ==
    \A i \in 1..Len(conversations) :
        (conversations[i].type = "assistant"
            /\ Truthy(QueryType(conversations[i].content)))
        => (/\ SelectedBlocks(conversations[i].content)
                = C14_Rule(conversations[i].content)
            /\ Len(SelectedBlocks(conversations[i].content)) <= 1
            /\ renderMessage(conversations[i]) # TypeError
                => renderMessage(conversations[i]).blocks
                    = C14_Rule(conversations[i].content))

C14_Witness ==
    /\ Len(conversations) = 2
    /\ QueryType(conversations[2].content) = "forecast"
    /\ TimeFrame(conversations[2].content) = "daily"
    /\ renderMessage(conversations[2]) # TypeError
    /\ renderMessage(conversations[2]).blocks = <<"daily">>

\* C15: every answer without a query_type is rendered as the serialized
\* fallback: rendering it does not throw, and the component stays mounted
\* unless the rendering of another turn throws.
C15_OpaqueFallback ==
    \A i \in 1..Len(conversations) :
        (conversations[i].type = "assistant"
            /\ ~Truthy(QueryType(conversations[i].content)))
        => (/\ renderMessage(conversations[i])
                = JSONstringify(conversations[i].content)
            /\ (\A j \in 1..Len(conversations) :
                    j # i => renderMessage(conversations[j]) # TypeError)
                => ~Unmounted)

\* The sequence a is an initial part of the sequence b.
IsPrefix(a, b) == Len(a) <= Len(b) /\ SubSeq(b, 1, Len(a)) = a

\* C16: every step other than a reset keeps the turns it finds, in their
\* order, as the initial part of the session, and a reset leaves no turn.
C16_AppendOnly ==
    [][IF lastEvent' = "reset"
       THEN conversations' = <<>>
       ELSE IsPrefix(conversations, conversations')]_vars

C16_Witness ==
    /\ lastEvent = "success"
    /\ Len(conversations) = 11

\* C17: every assistant turn of the session stands right behind a user turn:
\* it is never the first turn, and no two assistant turns are adjacent.
C17_AnswerFollowsQuestion ==
    \A i \in 1..Len(conversations) :
        conversations[i].type = "assistant"
            => (i > 1 /\ conversations[i - 1].type = "user")

\* C18: the displayed number of questions remaining lies in 0..5 and is 0
\* exactly when the limit check blocks submission.
C18_DisplayRange ==
    /\ remainingQuestions(conversations) \in 0..5
    /\ remainingQuestions(conversations) = 0 <=> LimitReached(conversations)

C18_Witness ==
    /\ Len(conversations) = 11
    /\ remainingQuestions(conversations) = 0
    /\ SendDisabled

\* C19: the error value is null while a request is in flight and right after
\* a successful answer.
C19_NoStaleError ==
    /\ loading => error = JsNull
    /\ lastEvent = "success" => error = JsNull

C19_Witness ==
    /\ lastEvent = "success"
    /\ error = JsNull
    /\ \E i \in 1..(Len(conversations) - 1) :
        conversations[i].type = "user" /\ conversations[i + 1].type = "user"

\* C20: a step issues a request exactly when it is an accepted submit, which
\* issues one request carrying the text of the user turn it appends (the input
\* text before it is cleared); a step that ends a request ends one request and
\* either appends an assistant turn or sets the error value, never both; and
\* every request ends.
C20_OneRequestOneOutcome ==
    /\ [][/\ lastEvent' = "submit"
            => (/\ Len(pending') = Len(pending) + 1
                /\ pending'[Len(pending')].message = message
                /\ conversations' = Append(conversations, userMessage(message)))
          /\ lastEvent' # "submit" => Len(pending') <= Len(pending)
          /\ Len(pending') < Len(pending)
            => (/\ Len(pending') = Len(pending) - 1
                /\ (/\ Len(conversations') = Len(conversations) + 1
                    /\ conversations'[Len(conversations')].type = "assistant")
                   # (error' # JsNull)
                /\ error' # JsNull => conversations' = conversations)]_vars
    /\ (pending # <<>>) ~> (pending = <<>>)

C20_Witness ==
    /\ lastEvent = "failure"
    /\ pending = <<>>
    /\ error = JsString("RateLimited")
    /\ Len(conversations) = 3
    /\ conversations[3] = userMessage(<<"q">>)

====
